---- MODULE Spec2Model ----
(***************************************************************************)
(* Model of src/main.py, the AI code reviewer action: the diff parser      *)
(* (parse_diff_text), the comment validator (_validate_comment_line,       *)
(* review_file_with_openai) and the run of main() from reading its inputs  *)
(* to posting a review or a summary comment.                               *)
(*                                                                         *)
(* Python values are represented as follows.                               *)
(*   str (a path)      a sequence of one-character strings                 *)
(*   Optional[int]     <<>> for None, <<n>> for the integer n              *)
(*   patch.header      <<>> for None, <<[new_path |-> p]>> otherwise       *)
(*   an environment    <<>> when the variable is unset, <<v>> when set     *)
(*   variable                                                              *)
(***************************************************************************)
EXTENDS Integers, Sequences, FiniteSets, TLC

VARIABLES
    pc,               \* position of the run (or of the function under check)
    inputs,           \* INPUT_GITHUB_TOKEN / INPUT_OPENAI_API_KEY of the environment
    event,            \* what GITHUB_EVENT_PATH leads to
    diff_text,        \* main: diff_text
    files,            \* main: files (result of parse_diff_text)
    review,           \* review_file_with_openai: outcome of the last model call
    comments_by_file, \* main: the value of `comments` in each loop iteration so far
    all_comments,     \* main: all_comments
    calls,            \* external (network) calls issued so far, in order
    failure,          \* message given to set_failed, "" while none
    new_path,         \* parse_diff_text: patch.header.new_path under check
    file_path,        \* parse_diff_text: file_path
    file_path_again   \* the prefix stripped from file_path once more

vars == <<pc, inputs, event, diff_text, files, review, comments_by_file,
          all_comments, calls, failure, new_path, file_path, file_path_again>>

----------------------------------------------------------------------------
(* Bounds of the model. *)

MaxPathLen == 4
MaxFiles == 2
MaxChanges == 3
MaxComments == 2

----------------------------------------------------------------------------
(* Generic helpers. *)

SeqsUpTo(S, n) == UNION {[1..k -> S] : k \in 0..n}

RECURSIVE Concat(_)
Concat(ss) == IF ss = <<>> THEN <<>> ELSE Head(ss) \o Concat(Tail(ss))

----------------------------------------------------------------------------
(* Paths: str.removeprefix and the deletion sentinel. *)

DevNull == <<"/", "d", "e", "v", "/", "n", "u", "l", "l">>

RevisionPrefix == <<"b", "/">>

StartsWith(s, prefix) ==
    /\ Len(s) >= Len(prefix)
    /\ SubSeq(s, 1, Len(prefix)) = prefix

RemovePrefixFirstChar(s, prefix) ==
    IF s # <<>> /\ prefix # <<>> /\ Head(s) = Head(prefix) THEN Tail(s) ELSE s

RemovePrefix(s, prefix) ==
    IF StartsWith(s, prefix) THEN SubSeq(s, Len(prefix) + 1, Len(s)) ELSE s

NormalizePath(p) == RemovePrefix(p, RevisionPrefix)

PathChars == {"a", "b", "/"}

Paths == SeqsUpTo(PathChars, MaxPathLen) \cup {DevNull, RevisionPrefix \o DevNull}

SamplePaths == {<<>>, DevNull, <<"b", "/", "a">>, <<"b", "/", "b", "/", "a">>, <<"a", "/", "b">>}

----------------------------------------------------------------------------
(* The parsed patches whatthepatch.parse_patch hands to parse_diff_text.   *)
(* A patch body is one hunk starting at line 1 of both files: a line of    *)
(* kind "+" has only a new line number, "-" only an old one, " " both.     *)

Kinds == {"+", "-", " "}

LineTexts == {"x", "y"}

CountBefore(kinds, i, K) == Cardinality({j \in 1..(i - 1) : kinds[j] \in K})

Change(kinds, texts, i) ==
    [old  |-> IF kinds[i] \in {"-", " "}
              THEN <<1 + CountBefore(kinds, i, {"-", " "})>> ELSE <<>>,
     new  |-> IF kinds[i] \in {"+", " "}
              THEN <<1 + CountBefore(kinds, i, {"+", " "})>> ELSE <<>>,
     line |-> texts[i]]

Hunk(kinds, texts) == [i \in 1..Len(kinds) |-> Change(kinds, texts, i)]

Patch(header, changes) == [header |-> header, changes |-> changes]

Header(p) == <<[new_path |-> p]>>

\* every hunk of at most MaxChanges lines
Hunks ==
    {Hunk([i \in 1..Len(l) |-> l[i][1]], [i \in 1..Len(l) |-> l[i][2]]) :
        l \in SeqsUpTo(Kinds \X LineTexts, MaxChanges)}

\* a diff of one file, with any sample path and any hunk
SinglePatchDiffs ==
    {<<Patch(Header(p), h)>> : p \in SamplePaths, h \in Hunks}

NoHeaderPatch == Patch(<<>>, Hunk(<<"+">>, <<"x">>))
DeletedPatch == Patch(Header(DevNull), Hunk(<<"-">>, <<"x">>))
NoAddPatch == Patch(Header(<<"a", "/", "b">>), Hunk(<<" ", "-">>, <<"x", "y">>))
PatchA == Patch(Header(<<"b", "/", "a">>), Hunk(<<" ", "+">>, <<"x", "y">>))
PatchB == Patch(Header(<<"b", "/", "b", "/", "a">>), Hunk(<<"-", "+">>, <<"x", "y">>))

SamplePatches == {NoHeaderPatch, DeletedPatch, NoAddPatch, PatchA, PatchB}

\* a diff of at most MaxFiles files
SampleDiffs == SeqsUpTo(SamplePatches, MaxFiles)

DiffText(text, patches) == [text |-> text, patches |-> patches]

\* what requests.get(pr.url).text can be: "", whitespace only, or a diff
DiffTexts ==
    {DiffText("empty", <<>>), DiffText("blank", <<>>)}
        \cup {DiffText("diff", d) : d \in SampleDiffs}

parse_patch(text) == text.patches

----------------------------------------------------------------------------
(* _classify_change and parse_diff_text. *)

_classify_change(change) ==
    IF change.old = <<>> /\ change.new # <<>> THEN "+"
    ELSE IF change.old # <<>> /\ change.new = <<>> THEN "-"
    ELSE " "

IsAddedAnyNew(change) == change.new # <<>>

IsAdded(change) == change.old = <<>> /\ change.new # <<>>

RECURSIVE AddedLines(_)
AddedLines(changes) ==
    IF changes = <<>> THEN <<>>
    ELSE LET change == Head(changes)
             rest == AddedLines(Tail(changes))
         IN  IF IsAdded(change)
             THEN <<[line |-> change.new[1], content |-> change.line]>> \o rest
             ELSE rest

SkipPatchKeepDeleted(patch) ==
    patch.header = <<>> \/ patch.header[1].new_path = <<>>

SkipPatch(patch) ==
    \/ patch.header = <<>> \/ patch.header[1].new_path = <<>>
    \/ patch.header[1].new_path = DevNull

RECURSIVE ParsePatches(_)
ParsePatches(patches) ==
    IF patches = <<>> THEN <<>>
    ELSE LET patch == Head(patches)
             rest == ParsePatches(Tail(patches))
         IN  IF SkipPatch(patch) THEN rest
             ELSE LET path == NormalizePath(patch.header[1].new_path)
                      added_lines == AddedLines(patch.changes)
                  IN  IF added_lines # <<>>
                      THEN <<[path |-> path, patch |-> patch,
                              added_lines |-> added_lines]>> \o rest
                      ELSE rest

parse_diff_text(text) == ParsePatches(parse_patch(text))

----------------------------------------------------------------------------
(* _validate_comment_line and review_file_with_openai. *)

_validate_comment_line_near(comment_line, added_lines) ==
    \E i \in 1..Len(added_lines) :
        added_lines[i].line \in {comment_line, comment_line + 1}

_validate_comment_line(comment_line, added_lines) ==
    \E i \in 1..Len(added_lines) : added_lines[i].line = comment_line

RECURSIVE ValidatedComments(_, _)
ValidatedComments(cs, added_lines) ==
    IF cs = <<>> THEN <<>>
    ELSE LET comment == Head(cs)
             rest == ValidatedComments(Tail(cs), added_lines)
         IN  IF _validate_comment_line(comment.line, added_lines)
             THEN <<[path |-> comment.file, line |-> comment.line,
                     body |-> comment.comment]>> \o rest
             ELSE rest

\* response: [outcome |-> "error"] when the call or the handling of its
\* response raises, "none" when message.parsed is None, "parsed" otherwise
review_file_with_openai(file_data, response) ==
    IF response.outcome = "error" THEN <<>>
    ELSE IF response.outcome = "none" \/ response.comments = <<>> THEN <<>>
    ELSE ValidatedComments(response.comments, file_data.added_lines)

\* what the (untrusted) model can answer
CandidateFiles == {<<"a">>, <<"b", "/", "a">>}
CandidateLines == {1, 2}
CandidateComments ==
    [file : CandidateFiles, line : CandidateLines, comment : {"c"}]

Responses ==
    {[outcome |-> "error", comments |-> <<>>],
     [outcome |-> "none", comments |-> <<>>]}
        \cup {[outcome |-> "parsed", comments |-> cs] :
                cs \in SeqsUpTo(CandidateComments, MaxComments)}

----------------------------------------------------------------------------
(* get_input and the environment of a run. *)

EnvValues == {<<>>, <<"">>, <<"secret">>}

Events == {"no_event_path", "unreadable", "not_pull_request", "incomplete",
           "pull_request"}

\* os.environ.get(env_name, default)
InputValue(env_value, default) ==
    IF env_value = <<>> THEN default ELSE env_value[1]

get_input_raises_unset_only(env_value, required, default) ==
    required /\ env_value = <<>>

\* get_input raises ValueError
get_input_raises(env_value, required, default) ==
    required /\ InputValue(env_value, default) = ""

Call(op, arg) == [op |-> op, arg |-> arg]

----------------------------------------------------------------------------
(* main(), one action per stretch of code between external calls. *)

Fail(message) ==
    /\ pc' = "failed"
    /\ failure' = message

\* lines 461-502: inputs, event context, client construction (no network)
ReadConfig ==
    /\ pc = "start"
    /\ IF get_input_raises(inputs.github_token, TRUE, "")
       THEN Fail("Input 'github_token' is required but not provided")
       ELSE IF get_input_raises(inputs.openai_api_key, TRUE, "")
       THEN Fail("Input 'openai_api_key' is required but not provided")
       ELSE IF event = "no_event_path"
       THEN Fail("GITHUB_EVENT_PATH not found")
       ELSE IF event = "unreadable"
       THEN Fail("exception: open/json.load")
       ELSE IF event = "not_pull_request"
       THEN Fail("This action can only be run on pull_request events")
       ELSE IF event = "incomplete"
       THEN Fail("exception: KeyError")
       ELSE pc' = "lookup" /\ failure' = failure
    /\ UNCHANGED <<inputs, event, diff_text, files, review, comments_by_file,
                   all_comments, calls, new_path, file_path, file_path_again>>

\* lines 505-506: repo = get_repo(...); pr = repo.get_pull(...)
GetPullRequest ==
    /\ pc = "lookup"
    /\ \E outcome \in {"repo_raises", "pull_raises", "ok"} :
        /\ calls' = IF outcome = "repo_raises"
                    THEN calls \o <<Call("get_repo", <<>>)>>
                    ELSE calls \o <<Call("get_repo", <<>>), Call("get_pull", <<>>)>>
        /\ IF outcome = "ok"
           THEN pc' = "fetch" /\ failure' = failure
           ELSE Fail("exception: github")
    /\ UNCHANGED <<inputs, event, diff_text, files, review, comments_by_file,
                   all_comments, new_path, file_path, file_path_again>>

IsBlank(text) == text.text \in {"empty", "blank"}

\* lines 509-518: fetch the diff, stop when it is empty
FetchDiff ==
    /\ pc = "fetch"
    /\ calls' = Append(calls, Call("get_diff", <<>>))
    /\ \/ /\ Fail("exception: requests")
          /\ UNCHANGED diff_text
       \/ \E text \in DiffTexts :
            /\ diff_text' = text
            /\ pc' = IF IsBlank(text) THEN "done" ELSE "parse"
            /\ failure' = failure
    /\ UNCHANGED <<inputs, event, files, review, comments_by_file,
                   all_comments, new_path, file_path, file_path_again>>

ParseDiffNoStop ==
    /\ pc = "parse"
    /\ files' = parse_diff_text(diff_text)
    /\ pc' = IF files' = <<>> THEN "post" ELSE "review"
    /\ UNCHANGED <<inputs, event, diff_text, review, comments_by_file,
                   all_comments, calls, failure, new_path, file_path,
                   file_path_again>>

\* lines 520-533: parse the diff, stop when no file is left to review
ParseDiff ==
    /\ pc = "parse"
    /\ files' = parse_diff_text(diff_text)
    /\ pc' = IF files' = <<>> THEN "done" ELSE "review"
    /\ UNCHANGED <<inputs, event, diff_text, review, comments_by_file,
                   all_comments, calls, failure, new_path, file_path,
                   file_path_again>>

ExtendOverwrite(all, comments) == comments

\* line 545: all_comments.extend(comments)
Extend(all, comments) == all \o comments

ReviewFileRaising(file_data, response) ==
    /\ LET comments == review_file_with_openai(file_data, response)
       IN  /\ comments_by_file' = Append(comments_by_file, comments)
           /\ all_comments' = Extend(all_comments, comments)
    /\ IF response.outcome = "error"
       THEN Fail("exception: openai")
       ELSE /\ pc' = IF Len(comments_by_file') = Len(files) THEN "post" ELSE "review"
            /\ failure' = failure

\* lines 534-545: one iteration of the loop over files
ReviewFile(file_data, response) ==
    /\ LET comments == review_file_with_openai(file_data, response)
       IN  /\ comments_by_file' = Append(comments_by_file, comments)
           /\ all_comments' = Extend(all_comments, comments)
    /\ pc' = IF Len(comments_by_file') = Len(files) THEN "post" ELSE "review"
    /\ failure' = failure

ReviewNextFile ==
    /\ pc = "review"
    /\ Len(comments_by_file) < Len(files)
    /\ LET file_data == files[Len(comments_by_file) + 1]
       IN  /\ calls' = Append(calls, Call("model", file_data.path))
           /\ \E response \in Responses :
                /\ review' = response
                /\ ReviewFile(file_data, response)
    /\ UNCHANGED <<inputs, event, diff_text, files, new_path, file_path,
                   file_path_again>>

PostBoth(comments) ==
    /\ calls' = calls \o <<Call("create_review", comments),
                           Call("create_issue_comment", <<>>)>>
    /\ pc' = "done"
    /\ failure' = failure

\* lines 547-567: the inline review, or the summary comment
Post(comments) ==
    IF comments # <<>>
    THEN \E outcome \in {"commits_raise", "review_raises", "ok"} :
            /\ calls' = IF outcome = "commits_raise"
                        THEN calls \o <<Call("get_commits", <<>>)>>
                        ELSE calls \o <<Call("get_commits", <<>>),
                                        Call("create_review", comments)>>
            /\ IF outcome = "ok"
               THEN pc' = "done" /\ failure' = failure
               ELSE Fail("exception: github")
    ELSE \E outcome \in {"comment_raises", "ok"} :
            /\ calls' = Append(calls, Call("create_issue_comment", <<>>))
            /\ IF outcome = "ok"
               THEN pc' = "done" /\ failure' = failure
               ELSE Fail("exception: github")

PostReview ==
    /\ pc = "post"
    /\ Post(all_comments)
    /\ UNCHANGED <<inputs, event, diff_text, files, review, comments_by_file,
                   all_comments, new_path, file_path, file_path_again>>

NoResponse == [outcome |-> "none", comments |-> <<>>]

\* diff_text before line 514 assigns it
Unfetched == DiffText("unset", <<>>)

Init ==
    /\ pc = "start"
    /\ inputs \in [github_token : EnvValues, openai_api_key : EnvValues]
    /\ event \in Events
    /\ diff_text = Unfetched
    /\ files = <<>>
    /\ review = NoResponse
    /\ comments_by_file = <<>>
    /\ all_comments = <<>>
    /\ calls = <<>>
    /\ failure = ""
    /\ new_path = <<>>
    /\ file_path = <<>>
    /\ file_path_again = <<>>

Next ==
    \/ ReadConfig
    \/ GetPullRequest
    \/ FetchDiff
    \/ ParseDiff
    \/ ReviewNextFile
    \/ PostReview

Spec == Init /\ [][Next]_vars

----------------------------------------------------------------------------
(* parse_diff_text alone, on the diff texts of ParseInputs. *)

ParseInputs ==
    {DiffText("diff", d) : d \in SinglePatchDiffs \cup SampleDiffs}

ParseInit ==
    /\ pc = "parse"
    /\ inputs = [github_token |-> <<"secret">>, openai_api_key |-> <<"secret">>]
    /\ event = "pull_request"
    /\ diff_text \in ParseInputs
    /\ files = <<>>
    /\ review = NoResponse
    /\ comments_by_file = <<>>
    /\ all_comments = <<>>
    /\ calls = <<>>
    /\ failure = ""
    /\ new_path = <<>>
    /\ file_path = <<>>
    /\ file_path_again = <<>>

ParseSpec == ParseInit /\ [][ParseDiff]_vars

----------------------------------------------------------------------------
(* The path normalization of parse_diff_text alone, on the paths of Paths. *)

\* line 288: file_path = patch.header.new_path.removeprefix("b/")
StripPrefix ==
    /\ pc = "path"
    /\ file_path' = NormalizePath(new_path)
    /\ pc' = "stripped"
    /\ UNCHANGED <<inputs, event, diff_text, files, review, comments_by_file,
                   all_comments, calls, failure, new_path, file_path_again>>

\* the same normalization applied to its own result
StripAgain ==
    /\ pc = "stripped"
    /\ file_path_again' = NormalizePath(file_path)
    /\ pc' = "stripped_twice"
    /\ UNCHANGED <<inputs, event, diff_text, files, review, comments_by_file,
                   all_comments, calls, failure, new_path, file_path>>

PathInit ==
    /\ pc = "path"
    /\ inputs = [github_token |-> <<"secret">>, openai_api_key |-> <<"secret">>]
    /\ event = "pull_request"
    /\ diff_text = Unfetched
    /\ files = <<>>
    /\ review = NoResponse
    /\ comments_by_file = <<>>
    /\ all_comments = <<>>
    /\ calls = <<>>
    /\ failure = ""
    /\ new_path \in Paths
    /\ file_path = <<>>
    /\ file_path_again = <<>>

PathNext == StripPrefix \/ StripAgain

PathSpec == PathInit /\ [][PathNext]_vars

----------------------------------------------------------------------------
(* Vocabulary of the properties. *)

Terminated == pc \in {"done", "failed"}

Issued(op) == {i \in 1..Len(calls) : calls[i].op = op}

AddedNumbers(file) == {file.added_lines[i].line : i \in 1..Len(file.added_lines)}

\* the loop over files has run to its end
Aggregated == files # <<>> /\ Len(comments_by_file) = Len(files)

\* the candidate c as review_file_with_openai passes it on
Passed(c) == [path |-> c.file, line |-> c.line, body |-> c.comment]

MissingInput(env_value) == env_value \in {<<>>, <<"">>}

BadConfig ==
    \/ MissingInput(inputs.github_token)
    \/ MissingInput(inputs.openai_api_key)
    \/ event \in {"no_event_path", "unreadable", "not_pull_request"}

----------------------------------------------------------------------------
(* C1: every comment of the posted inline review targets an added line of  *)
(* the parsed FileChange whose path is the comment's (posted) path; no     *)
(* posted comment targets a removed or context line, a line absent from    *)
(* the diff, or a file other than the one it was validated against.        *)
C1_PostedCommentsAnchored ==
    \A i \in Issued("create_review") :
        \A k \in 1..Len(calls[i].arg) :
            \E f \in 1..Len(files) :
                /\ files[f].path = calls[i].arg[k].path
                /\ calls[i].arg[k].line \in AddedNumbers(files[f])

(* C2: a candidate of a file's model response is kept in that file's       *)
(* result iff its line is the lineNumber of an AddedLine of the file; the  *)
(* kept candidates are passed on in order with line and text unchanged,    *)
(* and nothing else reaches the aggregated list.                           *)
C2_KeptIffAddedLine ==
    (comments_by_file # <<>> /\ review.outcome = "parsed") =>
        LET k == Len(comments_by_file)
            kept == SelectSeq(review.comments,
                              LAMBDA c : c.line \in AddedNumbers(files[k]))
        IN  /\ Len(comments_by_file[k]) = Len(kept)
            /\ \A i \in 1..Len(kept) : comments_by_file[k][i] = Passed(kept[i])
            /\ all_comments =
                 Concat(SubSeq(comments_by_file, 1, k - 1)) \o comments_by_file[k]

C2_Witness ==
    /\ comments_by_file # <<>>
    /\ review.outcome = "parsed"
    /\ Len(review.comments) = 2
    /\ Len(comments_by_file[Len(comments_by_file)]) = 1
    /\ review.comments[1].line \notin AddedNumbers(files[Len(comments_by_file)])

(* C3 as stated: a run that reached aggregation and ended has issued       *)
(* exactly one of the two posting actions, the inline review iff the       *)
(* aggregated list is non-empty and the summary comment otherwise.         *)
C3_ExactlyOneDisposition ==
    (Terminated /\ Aggregated) =>
        /\ (Issued("create_review") # {}) <=> (all_comments # <<>>)
        /\ (Issued("create_issue_comment") # {}) <=> (all_comments = <<>>)

(* C3 amended: a run that reached aggregation and ended has issued at most *)
(* one posting action; the summary comment iff the aggregated list is      *)
(* empty, the inline review only if it is non-empty, and the review is     *)
(* missing for a non-empty list only when the lookup of the latest commit  *)
(* raised, in which case the run failed.                                   *)
C3_DispositionByEmptiness ==
    (Terminated /\ Aggregated) =>
        /\ Cardinality(Issued("create_review") \cup Issued("create_issue_comment")) <= 1
        /\ (Issued("create_issue_comment") # {}) <=> (all_comments = <<>>)
        /\ (Issued("create_review") # {}) => (all_comments # <<>>)
        /\ (all_comments # <<>> /\ Issued("create_review") = {}) =>
              /\ pc = "failed"
              /\ calls[Len(calls)].op = "get_commits"
        /\ pc = "done" =>
              Cardinality(Issued("create_review") \cup Issued("create_issue_comment")) = 1

C3_Witness ==
    /\ Terminated
    /\ Aggregated
    /\ all_comments # <<>>
    /\ Issued("create_review") = {}

(* C4: when the model invocation for a file fails, the file contributes no *)
(* comment, the comments of earlier files are kept, the files are still    *)
(* processed one by one in parsed order up to the last, and no run fails   *)
(* at a model invocation.                                                  *)
C4_ModelFailureIsLocal ==
    /\ (comments_by_file # <<>> /\ review.outcome = "error") =>
          LET k == Len(comments_by_file)
          IN  /\ comments_by_file[k] = <<>>
              /\ all_comments = Concat(SubSeq(comments_by_file, 1, k - 1))
              /\ k < Len(files) => pc = "review"
              /\ k = Len(files) => pc \in {"post", "done", "failed"}
    /\ (pc = "failed" /\ calls # <<>>) => calls[Len(calls)].op # "model"
    /\ (Terminated /\ files # <<>>) => Len(comments_by_file) = Len(files)
    /\ LET m == Issued("model")
       IN  \A i \in m :
              calls[i].arg = files[Cardinality({j \in m : j <= i})].path

C4_Witness ==
    /\ pc = "done"
    /\ Len(comments_by_file) = 2
    /\ comments_by_file[1] = <<>>
    /\ comments_by_file[2] # <<>>
    /\ Issued("create_review") # {}
    /\ \E i \in Issued("model") : calls[i].arg = files[1].path

(* C5: with github_token or openai_api_key missing or empty, or the event  *)
(* context absent or not a pull-request event, the run fails in its first  *)
(* step and has issued no external call.                                   *)
C5_BadConfigFailsBeforeNetwork ==
    BadConfig =>
        /\ calls = <<>>
        /\ pc \in {"start", "failed"}
        /\ pc = "failed" => failure # ""

C5_Witness ==
    /\ pc = "failed"
    /\ inputs.github_token = <<"secret">>
    /\ inputs.openai_api_key = <<"">>

(* C6: when the fetched diff text is empty or whitespace-only, or no patch *)
(* of it yields a FileChange, the run ends successfully and has neither    *)
(* invoked the model nor issued a review or a summary comment.             *)
C6_NothingToReview ==
    LET patches == diff_text.patches
        reviewable(p) ==
            /\ p.header # <<>>
            /\ p.header[1].new_path \notin {<<>>, DevNull}
            /\ \E j \in 1..Len(p.changes) : _classify_change(p.changes[j]) = "+"
        nothing ==
            \/ diff_text.text \in {"empty", "blank"}
            \/ /\ diff_text.text = "diff"
               /\ pc # "parse"
               /\ \A i \in 1..Len(patches) : ~reviewable(patches[i])
    IN  nothing =>
            /\ pc = "done"
            /\ files = <<>>
            /\ Issued("model") = {}
            /\ Issued("create_review") = {}
            /\ Issued("create_issue_comment") = {}

C6_Witness ==
    /\ pc = "done"
    /\ diff_text.text = "diff"
    /\ diff_text.patches = <<DeletedPatch>>
    /\ calls[Len(calls)].op = "get_diff"

(* C7: the parser's output is, in diff order, exactly the patches whose    *)
(* new path is present and not /dev/null and which have an added line;     *)
(* every FileChange has a non-empty addedLines.                            *)
C7_ParserKeepsReviewablePatches ==
    pc # "parse" =>
        LET reviewable(p) ==
                /\ p.header # <<>>
                /\ p.header[1].new_path \notin {<<>>, DevNull}
                /\ \E j \in 1..Len(p.changes) : _classify_change(p.changes[j]) = "+"
            expected == SelectSeq(diff_text.patches, reviewable)
        IN  /\ Len(files) = Len(expected)
            /\ \A i \in 1..Len(files) :
                  /\ files[i].patch = expected[i]
                  /\ files[i].added_lines # <<>>
                  /\ \/ files[i].path = expected[i].header[1].new_path
                     \/ RevisionPrefix \o files[i].path = expected[i].header[1].new_path

C7_Witness ==
    /\ pc = "review"
    /\ Len(diff_text.patches) = 2
    /\ diff_text.patches[1] = DeletedPatch
    /\ Len(files) = 1

(* C8: the addedLines of every FileChange is the order-preserving filter   *)
(* of the patch's lines to the added ones, each with its new line number   *)
(* and its text; none is omitted, renumbered or reordered.                 *)
C8_AddedLinesAreTheAddedChanges ==
    \A f \in 1..Len(files) :
        LET changes == files[f].patch.changes
            added == {j \in 1..Len(changes) :
                         changes[j].old = <<>> /\ changes[j].new # <<>>}
            nth(k) == CHOOSE j \in added : Cardinality({m \in added : m <= j}) = k
        IN  /\ Len(files[f].added_lines) = Cardinality(added)
            /\ \A k \in 1..Len(files[f].added_lines) :
                  /\ files[f].added_lines[k].line = changes[nth(k)].new[1]
                  /\ files[f].added_lines[k].content = changes[nth(k)].line

C8_Witness ==
    /\ Len(files) = 1
    /\ Len(files[1].patch.changes) = 3
    /\ Len(files[1].added_lines) = 2
    /\ _classify_change(files[1].patch.changes[2]) = " "
    /\ files[1].added_lines[1].content # files[1].added_lines[2].content

(* C9 as stated: stripping the prefix twice gives what stripping it once   *)
(* gives, and a path without the prefix is unchanged.                      *)
C9_StripIsIdempotent ==
    /\ pc \in {"stripped", "stripped_twice"} =>
          (~StartsWith(new_path, RevisionPrefix) => file_path = new_path)
    /\ pc = "stripped_twice" => file_path_again = file_path

(* C9 amended: normalization removes exactly one leading "b/": a path      *)
(* without the prefix is unchanged, a path with it loses its first two     *)
(* characters, and stripping twice equals stripping once exactly when the  *)
(* once-stripped path does not itself begin with "b/".                     *)
C9_StripsOnePrefix ==
    /\ pc \in {"stripped", "stripped_twice"} =>
          IF Len(new_path) >= 2 /\ new_path[1] = "b" /\ new_path[2] = "/"
          THEN <<"b", "/">> \o file_path = new_path
          ELSE file_path = new_path
    /\ pc = "stripped_twice" =>
          ((file_path_again = file_path) <=>
              ~(Len(file_path) >= 2 /\ file_path[1] = "b" /\ file_path[2] = "/"))

C9_Witness ==
    /\ pc = "stripped_twice"
    /\ file_path # new_path
    /\ file_path_again # file_path

(* C10: the create-review action is issued at most once, after the model   *)
(* was invoked for every parsed file, with exactly the concatenation of    *)
(* the files' accepted comments in file order; nothing is lost, merged or  *)
(* deduplicated, and the aggregate never holds anything else.              *)
C10_SingleCompleteReview ==
    /\ all_comments = Concat(comments_by_file)
    /\ Cardinality(Issued("create_review")) <= 1
    /\ \A i \in Issued("create_review") :
          /\ Aggregated
          /\ calls[i].arg = Concat(comments_by_file)
          /\ Cardinality(Issued("model")) = Len(files)
          /\ \A j \in Issued("model") : j < i
          /\ i = Len(calls)

C10_Witness ==
    /\ pc = "done"
    /\ \E i \in Issued("create_review") :
          /\ Len(calls[i].arg) = 2
          /\ calls[i].arg[1] = calls[i].arg[2]

====
